---- MODULE Spec2Model ----
(***************************************************************************)
(* Rise TinCan -> IMSCC converter (streamlit_py.py).                        *)
(*                                                                         *)
(* Strings that the program inspects character by character (activity      *)
(* names, page titles, slugs) are sequences of one-character strings.       *)
(* uuid.uuid4() is modelled as a fresh-token allocator: the n-th call of a  *)
(* run returns token n, tagged with the prefix the code puts before it.     *)
(***************************************************************************)
EXTENDS Integers, Sequences, FiniteSets, TLC

VARIABLES
    pc,               \* position of the run
    xml_activities,   \* <activity> elements of the uploaded tincan.xml
    extract_error,    \* extract_activities raised
    activities,       \* flat activity list
    html_files,       \* uploaded additional HTML files
    modules,          \* organize_activities(activities)
    additional_pages, \* process_additional_html(html_files)
    warnings,         \* st.warning calls, file names
    wiki_dir,         \* temp_dir/wiki_content: file name -> content
    written,          \* every write into wiki_content, in order; page_id is
                      \* the page written (0 for an additional page)
    manifest,         \* imsmanifest.xml
    module_meta,      \* course_settings/module_meta.xml
    uuid_ctr,         \* number of uuid.uuid4() calls so far
    returned,         \* create_imscc_package returned the archive
    title,            \* argument of create_safe_filename
    slug1,            \* create_safe_filename(title)
    slug2,            \* create_safe_filename(slug1)
    xml_wellformed,   \* ET.fromstring accepts the uploaded tincan.xml
    surfaced,         \* st.error was called
    download          \* the download link was shown

vars == <<pc, xml_activities, extract_error, activities, html_files, modules,
          additional_pages, warnings, wiki_dir, written, manifest, module_meta,
          uuid_ctr, returned, title, slug1, slug2,
          xml_wellformed, surfaced, download>>

\* the state of the script around create_imscc_package
mainvars == <<xml_wellformed, surfaced, download>>

(***************************************************************************)
(* Bounds                                                                  *)
(***************************************************************************)
MaxTitleLen == 4
MaxPieces == 2
MaxElems == 2
MaxActs == 3
MaxFiles == 2

(***************************************************************************)
(* Characters                                                              *)
(***************************************************************************)
UpperChars == {"A", "B", "Q"}
LowerChars == {"a", "b", "c", "e", "i", "k", "l", "n", "o", "q", "s", "t", "x"}
DigitChars == {"1"}
\* Python's \w: letters, digits and the underscore
WordChars == UpperChars \cup LowerChars \cup DigitChars \cup {"_"}
\* Python's \s
SpaceChars == {" "}

\* str.lower() on one character
LowerChar(c) ==
    CASE c = "A" -> "a"
      [] c = "B" -> "b"
      [] c = "Q" -> "q"
      [] OTHER -> c

Lower(s) == [i \in 1..Len(s) |-> LowerChar(s[i])]

RECURSIVE LStrip(_)
LStrip(s) ==
    IF s # <<>> /\ Head(s) \in SpaceChars THEN LStrip(Tail(s)) ELSE s

RECURSIVE RStrip(_)
RStrip(s) ==
    IF s # <<>> /\ s[Len(s)] \in SpaceChars
    THEN RStrip(SubSeq(s, 1, Len(s) - 1))
    ELSE s

\* str.strip(): leading and trailing whitespace removed
Strip(s) == RStrip(LStrip(s))

KeepChar(c) == c \in WordChars \/ c \in SpaceChars \/ c = "-"

\* re.sub(r'[^\w\s-]', '', s): hyphen deleted as well
RemoveUnsafeNoHyphen(s) ==
    SelectSeq(s, LAMBDA c : c \in WordChars \/ c \in SpaceChars)

\* re.sub(r'[^\w\s-]', '', s)
RemoveUnsafe(s) == SelectSeq(s, KeepChar)

IsSep(c) == c = "-" \/ c \in SpaceChars

\* re.sub(r'[-\s]+', '-', s): every maximal run of separators becomes one "-"
RECURSIVE CollapseFrom(_, _)
CollapseFrom(s, inRun) ==
    IF s = <<>> THEN <<>>
    ELSE IF IsSep(Head(s))
         THEN (IF inRun THEN <<>> ELSE <<"-">>) \o CollapseFrom(Tail(s), TRUE)
         ELSE <<Head(s)>> \o CollapseFrom(Tail(s), FALSE)

Collapse(s) == CollapseFrom(s, FALSE)

create_safe_filename(t) == Collapse(RemoveUnsafe(Strip(Lower(t))))

(***************************************************************************)
(* Bounded inputs                                                          *)
(***************************************************************************)
RECURSIVE SeqsUpTo(_, _)
SeqsUpTo(S, n) ==
    IF n = 0 THEN {<<>>}
    ELSE LET shorter == SeqsUpTo(S, n - 1)
         IN  shorter \cup {Append(s, x) : s \in shorter, x \in S}

SlugAlphabet == {"A", "a", "1", "_", " ", "-", "!"}
\* the titles of at most n characters
TitleInputs(n) == SeqsUpTo(SlugAlphabet, n)

NoId == <<"none", 0>>
EmptyManifest == [items |-> <<>>, resources |-> <<>>, root |-> "none"]

(***************************************************************************)
(* create_safe_filename applied to a title, then to its own result         *)
(***************************************************************************)
InitSlug ==
    /\ pc = "slug_start"
    /\ title \in TitleInputs(MaxTitleLen)
    /\ slug1 = <<>>
    /\ slug2 = <<>>
    /\ xml_activities = <<>>
    /\ extract_error = FALSE
    /\ activities = <<>>
    /\ html_files = <<>>
    /\ modules = <<>>
    /\ additional_pages = <<>>
    /\ warnings = <<>>
    /\ wiki_dir = <<>>
    /\ written = <<>>
    /\ manifest = EmptyManifest
    /\ module_meta = <<>>
    /\ uuid_ctr = 0
    /\ returned = FALSE
    /\ xml_wellformed = TRUE
    /\ surfaced = FALSE
    /\ download = FALSE

Slugify ==
    /\ pc = "slug_start"
    /\ slug1' = create_safe_filename(title)
    /\ pc' = "slug_once"
    /\ UNCHANGED mainvars
    /\ UNCHANGED <<xml_activities, extract_error, activities, html_files, modules,
                   additional_pages, warnings, wiki_dir, written, manifest,
                   module_meta, uuid_ctr, returned, title, slug2>>

SlugifyAgain ==
    /\ pc = "slug_once"
    /\ slug2' = create_safe_filename(slug1)
    /\ pc' = "slug_twice"
    /\ UNCHANGED mainvars
    /\ UNCHANGED <<xml_activities, extract_error, activities, html_files, modules,
                   additional_pages, warnings, wiki_dir, written, manifest,
                   module_meta, uuid_ctr, returned, title, slug1>>

NextSlug == Slugify \/ SlugifyAgain

SpecSlug == InitSlug /\ [][NextSlug]_vars

\* C8: create_safe_filename is idempotent: applying it to its own result
\* returns that result unchanged.
C8_SlugIdempotent == pc = "slug_twice" => slug2 = slug1

\* a title that the first application changed (case, stripped character,
\* collapsed run) and whose slug was then slugified again
C8_Witness ==
    /\ pc = "slug_twice"
    /\ title = <<"A", "!", " ", "-">>
    /\ slug1 = <<"a", "-">>
    /\ slug2 = slug1

\* C9: the slug is lower-case, holds only alphanumerics and hyphens, has no
\* two adjacent hyphens and neither starts nor ends with a hyphen.
C9_SlugShape ==
    pc = "slug_once" =>
        /\ \A i \in 1..Len(slug1) :
              slug1[i] \in LowerChars \cup DigitChars \cup {"-"}
        /\ \A i \in 1..(Len(slug1) - 1) : ~(slug1[i] = "-" /\ slug1[i + 1] = "-")
        /\ slug1 # <<>> => slug1[1] # "-" /\ slug1[Len(slug1)] # "-"

(***************************************************************************)
(* extract_activities                                                      *)
(***************************************************************************)
BLOCKS == <<"/", "b", "l", "o", "c", "k", "s">>
SECTION == <<"/", "s", "e", "c", "t", "i", "o", "n">>

\* str.endswith
EndsWith(s, suf) ==
    Len(s) >= Len(suf) /\ SubSeq(s, Len(s) - Len(suf) + 1, Len(s)) = suf

\* s.replace(pat, ''): every non-overlapping occurrence, left to right
RECURSIVE RemoveAll(_, _)
RemoveAll(s, pat) ==
    IF Len(s) < Len(pat) THEN s
    ELSE IF SubSeq(s, 1, Len(pat)) = pat
         THEN RemoveAll(SubSeq(s, Len(pat) + 1, Len(s)), pat)
         ELSE <<Head(s)>> \o RemoveAll(Tail(s), pat)

\* name.replace('/blocks', '').replace('/section', '')
CleanName(name) == RemoveAll(RemoveAll(name, BLOCKS), SECTION)

\* activity_id.split('/')[-1]; an id is held as its '/'-separated segments
LessonId(activity_id) == activity_id[Len(activity_id)]

\* one <activity> element: name_kind is "absent" (no <name> child),
\* "empty" (<name/>, whose .text is None) or "text"
ExtractOne(e) ==
    [id          |-> LessonId(e.id),
     full_id     |-> e.id,
     name        |-> CleanName(e.name),
     description |-> IF e.has_description THEN e.description ELSE "",
     type        |-> IF EndsWith(e.name, BLOCKS) THEN "block" ELSE "section",
     identifier  |-> NoId]

Qualifies(e) ==
    e.name_kind = "text" /\ (EndsWith(e.name, BLOCKS) \/ EndsWith(e.name, SECTION))

\* the loop of extract_activities over root.findall('.//tincan:activity')
RECURSIVE ExtractList(_)
ExtractList(elems) ==
    IF elems = <<>> THEN <<>>
    ELSE (IF Qualifies(Head(elems)) THEN <<ExtractOne(Head(elems))>> ELSE <<>>)
         \o ExtractList(Tail(elems))

\* name.endswith on a None name raises AttributeError
ExtractRaises(elems) == \E i \in 1..Len(elems) : elems[i].name_kind = "empty"

NamePieces ==
    {BLOCKS, SECTION, <<"a">>, <<"/", "B", "l", "o", "c", "k", "s">>,
     <<"/", "s", "e", "c">>, <<"t", "i", "o", "n">>}

RECURSIVE Concat(_)
Concat(ss) == IF ss = <<>> THEN <<>> ELSE Head(ss) \o Concat(Tail(ss))

\* the names made of at most n pieces
RawNames(n) == {Concat(ps) : ps \in SeqsUpTo(NamePieces, n)}

ElementBodies(n) ==
    [name_kind : {"text"}, name : RawNames(n),
     has_description : BOOLEAN, description : {"d"}]
    \cup [name_kind : {"absent", "empty"}, name : {<<>>},
          has_description : {FALSE}, description : {"d"}]

\* the k-th element of the document has id .../k
ElementAt(body, k) ==
    [id |-> <<"http:", "", "rise", k>>, name_kind |-> body.name_kind,
     name |-> body.name, has_description |-> body.has_description,
     description |-> body.description]

\* the documents of at most m activity elements
XmlInputs(n, m) ==
    {[k \in 1..Len(bs) |-> ElementAt(bs[k], k)] : bs \in SeqsUpTo(ElementBodies(n), m)}

InitExtract ==
    /\ pc = "extract_start"
    /\ xml_activities \in XmlInputs(MaxPieces, MaxElems)
    /\ extract_error = FALSE
    /\ activities = <<>>
    /\ title = <<>>
    /\ slug1 = <<>>
    /\ slug2 = <<>>
    /\ html_files = <<>>
    /\ modules = <<>>
    /\ additional_pages = <<>>
    /\ warnings = <<>>
    /\ wiki_dir = <<>>
    /\ written = <<>>
    /\ manifest = EmptyManifest
    /\ module_meta = <<>>
    /\ uuid_ctr = 0
    /\ returned = FALSE
    /\ xml_wellformed = TRUE
    /\ surfaced = FALSE
    /\ download = FALSE

extract_activities ==
    /\ pc = "extract_start"
    /\ IF ExtractRaises(xml_activities)
       THEN /\ extract_error' = TRUE
            /\ pc' = "extract_failed"
            /\ UNCHANGED activities
       ELSE /\ activities' = ExtractList(xml_activities)
            /\ pc' = "extracted"
            /\ UNCHANGED extract_error
    /\ UNCHANGED mainvars
    /\ UNCHANGED <<xml_activities, html_files, modules, additional_pages, warnings,
                   wiki_dir, written, manifest, module_meta, uuid_ctr, returned,
                   title, slug1, slug2>>

NextExtract == extract_activities

SpecExtract == InitExtract /\ [][NextExtract]_vars

\* the raw name without its one trailing suffix
WithoutSuffix(name) ==
    IF EndsWith(name, BLOCKS) THEN SubSeq(name, 1, Len(name) - Len(BLOCKS))
    ELSE SubSeq(name, 1, Len(name) - Len(SECTION))

\* C4: an activity that has a name is retained iff its raw name ends with
\* '/blocks' or '/section', and the stored name of a retained activity is the
\* raw name with only that trailing suffix removed.
C4_SuffixLaw ==
    pc = "extracted" =>
        /\ \A i \in 1..Len(xml_activities) :
              LET e == xml_activities[i]
              IN  e.name_kind = "text" =>
                    ((EndsWith(e.name, BLOCKS) \/ EndsWith(e.name, SECTION))
                       <=> \E j \in 1..Len(activities) : activities[j].full_id = e.id)
        /\ \A j \in 1..Len(activities) :
              \E i \in 1..Len(xml_activities) :
                  /\ xml_activities[i].id = activities[j].full_id
                  /\ activities[j].name = WithoutSuffix(xml_activities[i].name)

\* C4, the retention half alone
C4_RetainedIffSuffix ==
    pc = "extracted" =>
        \A i \in 1..Len(xml_activities) :
            LET e == xml_activities[i]
            IN  e.name_kind = "text" =>
                  ((EndsWith(e.name, BLOCKS) \/ EndsWith(e.name, SECTION))
                     <=> \E j \in 1..Len(activities) : activities[j].full_id = e.id)

(***************************************************************************)
(* organize_activities                                                     *)
(***************************************************************************)
NewModule(a) == [title |-> a.name, id |-> a.id, pages |-> <<>>]

\* blocks are appended to the first module instead of the current one
RECURSIVE OrganizeIntoFirst(_, _)
OrganizeIntoFirst(acts, mods) ==
    IF acts = <<>> THEN mods
    ELSE LET a == Head(acts)
         IN  IF a.type = "section"
             THEN OrganizeIntoFirst(Tail(acts), Append(mods, NewModule(a)))
             ELSE IF a.type = "block" /\ mods # <<>>
                  THEN OrganizeIntoFirst(Tail(acts),
                                         [mods EXCEPT ![1].pages = Append(@, a)])
                  ELSE OrganizeIntoFirst(Tail(acts), mods)

organize_first(acts) == OrganizeIntoFirst(acts, <<>>)

\* a block met before any section opens a module of its own
RECURSIVE OrganizeKeepOrphans(_, _)
OrganizeKeepOrphans(acts, mods) ==
    IF acts = <<>> THEN mods
    ELSE LET a == Head(acts)
         IN  IF a.type = "section"
             THEN OrganizeKeepOrphans(Tail(acts), Append(mods, NewModule(a)))
             ELSE IF mods # <<>>
                  THEN OrganizeKeepOrphans(Tail(acts),
                           [mods EXCEPT ![Len(mods)].pages = Append(@, a)])
                  ELSE OrganizeKeepOrphans(Tail(acts),
                           <<[title |-> a.name, id |-> a.id, pages |-> <<a>>]>>)

organize_orphans(acts) == OrganizeKeepOrphans(acts, <<>>)

\* the loop of organize_activities; current_module is the last module
\* appended, and is None exactly while mods is empty
RECURSIVE OrganizeFrom(_, _)
OrganizeFrom(acts, mods) ==
    IF acts = <<>> THEN mods
    ELSE LET a == Head(acts)
         IN  IF a.type = "section"
             THEN OrganizeFrom(Tail(acts), Append(mods, NewModule(a)))
             ELSE IF a.type = "block" /\ mods # <<>>
                  THEN OrganizeFrom(Tail(acts),
                                    [mods EXCEPT ![Len(mods)].pages = Append(@, a)])
                  ELSE OrganizeFrom(Tail(acts), mods)

organize_activities(acts) == OrganizeFrom(acts, <<>>)

(***************************************************************************)
(* extract_wiki_metadata, process_additional_html                          *)
(***************************************************************************)
UntitledPage == <<"U", "n", "t", "i", "t", "l", "e", "d", " ", "P", "a", "g", "e">>

\* An uploaded HTML document is held as what the three regular expressions
\* find in it: has_title FALSE, NoId, "none" where a marker is missing.
extract_wiki_metadata(html, ctr) ==
    [title          |-> IF html.has_title THEN html.title ELSE UntitledPage,
     identifier     |-> IF html.identifier # NoId THEN html.identifier
                        ELSE <<"g", ctr + 1>>,
     workflow_state |-> IF html.workflow_state # "none" THEN html.workflow_state
                        ELSE "active",
     ctr            |-> IF html.identifier # NoId THEN ctr ELSE ctr + 1]

\* html_file.read().decode('utf-8') raises on bytes that are not UTF-8
RECURSIVE ProcessFrom(_, _)
ProcessFrom(files, ctr) ==
    IF files = <<>> THEN [pages |-> <<>>, warnings |-> <<>>, ctr |-> ctr]
    ELSE LET f == Head(files)
         IN  IF f.decodable
             THEN LET md   == extract_wiki_metadata(f.content, ctr)
                      rest == ProcessFrom(Tail(files), md.ctr)
                  IN  [pages |-> <<[title          |-> md.title,
                                    identifier     |-> md.identifier,
                                    workflow_state |-> md.workflow_state,
                                    filename       |-> f.name,
                                    content        |-> f.content]>> \o rest.pages,
                       warnings |-> rest.warnings,
                       ctr |-> rest.ctr]
             ELSE LET rest == ProcessFrom(Tail(files), ctr)
                  IN  [pages |-> rest.pages,
                       warnings |-> <<f.name>> \o rest.warnings,
                       ctr |-> rest.ctr]

process_additional_html(files, ctr) == ProcessFrom(files, ctr)

(***************************************************************************)
(* create_html_page and the writes into wiki_content                       *)
(***************************************************************************)
DotHtml == <<".html">>

\* the rendered document, held as the values substituted into the template
create_html_page(lesson_id, lesson_title, url_format, ctr) ==
    [html |-> [title          |-> lesson_title,
               identifier     |-> <<"g", ctr + 1>>,
               editing_roles  |-> "teachers",
               workflow_state |-> "active",
               url_format     |-> url_format,
               lesson_id      |-> lesson_id],
     safe_title |-> create_safe_filename(lesson_title),
     identifier |-> <<"g", ctr + 1>>]

\* open(path, 'w').write(content): the file is created or replaced
WriteFile(fs, path, content) ==
    [p \in DOMAIN fs \cup {path} |-> IF p = path THEN content ELSE fs[p]]

\* lines 468-473 for the pages of one module
RECURSIVE WritePagesOf(_, _, _)
WritePagesOf(pages, fs, ctr) ==
    IF pages = <<>> THEN [pages |-> <<>>, fs |-> fs, log |-> <<>>, ctr |-> ctr]
    ELSE LET p    == Head(pages)
             r    == create_html_page(p.id, p.name, "blocks", ctr)
             path == r.safe_title \o DotHtml
             rest == WritePagesOf(Tail(pages), WriteFile(fs, path, r.html), ctr + 1)
         IN  [pages |-> <<[p EXCEPT !.identifier = r.identifier]>> \o rest.pages,
              fs    |-> rest.fs,
              log   |-> <<[path |-> path, content |-> r.html, page_id |-> p.id]>>
                        \o rest.log,
              ctr   |-> rest.ctr]

\* lines 467-473
RECURSIVE WriteModulesFrom(_, _, _)
WriteModulesFrom(mods, fs, ctr) ==
    IF mods = <<>> THEN [modules |-> <<>>, fs |-> fs, log |-> <<>>, ctr |-> ctr]
    ELSE LET r    == WritePagesOf(Head(mods).pages, fs, ctr)
             rest == WriteModulesFrom(Tail(mods), r.fs, r.ctr)
         IN  [modules |-> <<[Head(mods) EXCEPT !.pages = r.pages]>> \o rest.modules,
              fs      |-> rest.fs,
              log     |-> r.log \o rest.log,
              ctr     |-> rest.ctr]

\* lines 476-478
RECURSIVE SaveAdditionalFrom(_, _)
SaveAdditionalFrom(pages, fs) ==
    IF pages = <<>> THEN [fs |-> fs, log |-> <<>>]
    ELSE LET p    == Head(pages)
             rest == SaveAdditionalFrom(Tail(pages),
                                        WriteFile(fs, p.filename, p.content))
         IN  [fs  |-> rest.fs,
              log |-> <<[path |-> p.filename, content |-> p.content, page_id |-> 0]>>
                      \o rest.log]

(***************************************************************************)
(* create_imsmanifest                                                      *)
(*                                                                         *)
(* An href is held without its constant "wiki_content/" prefix.  page_id   *)
(* is not part of the XML: it records the page the element was emitted for *)
(* (0 for an additional page).                                             *)
(***************************************************************************)
\* the title is not lower-cased
ManifestFilenameNoLower(page) == Collapse(RemoveUnsafe(Strip(page.name))) \o DotHtml

\* line 212
ManifestFilename(page) == create_safe_filename(page.name) \o DotHtml

\* lines 210-227
RECURSIVE ManifestPages(_, _)
ManifestPages(pages, ctr) ==
    IF pages = <<>>
    THEN [items |-> <<>>, resources |-> <<>>, pages |-> <<>>, ctr |-> ctr]
    ELSE LET p               == Head(pages)
             safe_filename   == ManifestFilename(p)
             page_identifier == <<"g", ctr + 1>>
             rest            == ManifestPages(Tail(pages), ctr + 2)
         IN  [items |-> <<[identifier    |-> <<"g", ctr + 2>>,
                           identifierref |-> page_identifier,
                           title         |-> p.name,
                           page_id       |-> p.id]>> \o rest.items,
              resources |-> <<[identifier |-> page_identifier,
                               href       |-> safe_filename,
                               file       |-> safe_filename,
                               page_id    |-> p.id]>> \o rest.resources,
              pages |-> <<[p EXCEPT !.identifier = page_identifier]>> \o rest.pages,
              ctr |-> rest.ctr]

\* lines 201-231
RECURSIVE ManifestModules(_, _)
ManifestModules(mods, ctr) ==
    IF mods = <<>>
    THEN [items |-> <<>>, resources |-> <<>>, modules |-> <<>>, ctr |-> ctr]
    ELSE LET mod  == Head(mods)
             r    == ManifestPages(mod.pages, ctr + 1)
             rest == ManifestModules(Tail(mods), r.ctr)
         IN  [items |-> <<[identifier |-> <<"g", ctr + 1>>,
                           title      |-> mod.title,
                           children   |-> r.items]>> \o rest.items,
              resources |-> r.resources \o rest.resources,
              modules |-> <<[mod EXCEPT !.pages = r.pages]>> \o rest.modules,
              ctr |-> rest.ctr]

\* the additional pages get no resource
NoAdditionalResources(pages) == <<>>

\* lines 234-239
AdditionalResources(pages) ==
    [k \in 1..Len(pages) |-> [identifier |-> pages[k].identifier,
                              href       |-> pages[k].filename,
                              file       |-> pages[k].filename,
                              page_id    |-> 0]]

create_imsmanifest(mods, pages, ctr) ==
    LET r == ManifestModules(mods, ctr + 1)
    IN  [xml |-> [identifier     |-> <<"manifest_", r.ctr + 1>>,
                  org_identifier |-> <<"org_", ctr + 1>>,
                  root           |-> "LearningModules",
                  items          |-> r.items,
                  resources      |-> r.resources \o AdditionalResources(pages)],
         modules |-> r.modules,
         ctr |-> r.ctr + 1]

(***************************************************************************)
(* create_module_meta                                                      *)
(***************************************************************************)
\* the zero-based index is written as it is
PositionZeroBased(index) == index

\* {i+1}, {j+1}: enumerate() counts from 0
Position(index) == index + 1

\* lines 288-308; j is the index enumerate() gives
RECURSIVE MetaItems(_, _, _)
MetaItems(pages, j, ctr) ==
    IF pages = <<>> THEN [items |-> <<>>, ctr |-> ctr]
    ELSE LET p       == Head(pages)
             has_id  == p.identifier # NoId
             pid     == IF has_id THEN p.identifier ELSE <<"g", ctr + 2>>
             rest    == MetaItems(Tail(pages), j + 1, IF has_id THEN ctr + 1 ELSE ctr + 2)
         IN  [items |-> <<[identifier     |-> <<"i_", ctr + 1>>,
                           content_type   |-> "WikiPage",
                           workflow_state |-> "active",
                           title          |-> p.name,
                           identifierref  |-> pid,
                           position       |-> Position(j),
                           page_id        |-> p.id]>> \o rest.items,
              ctr |-> rest.ctr]

\* lines 284-317
RECURSIVE MetaModules(_, _, _)
MetaModules(mods, i, ctr) ==
    IF mods = <<>> THEN [modules |-> <<>>, ctr |-> ctr]
    ELSE LET mod  == Head(mods)
             r    == MetaItems(mod.pages, 0, ctr + 1)
             rest == MetaModules(Tail(mods), i + 1, r.ctr)
         IN  [modules |-> <<[identifier     |-> <<"m_", ctr + 1>>,
                             title          |-> mod.title,
                             workflow_state |-> "active",
                             position       |-> Position(i),
                             items          |-> r.items]>> \o rest.modules,
              ctr |-> rest.ctr]

\* lines 324-341
MetaAdditionalItems(pages, ctr) ==
    [j \in 1..Len(pages) |-> [identifier     |-> <<"i_", ctr + j>>,
                              content_type   |-> "WikiPage",
                              workflow_state |-> pages[j].workflow_state,
                              title          |-> pages[j].title,
                              identifierref  |-> pages[j].identifier,
                              position       |-> Position(j - 1),
                              page_id        |-> 0]]

AdditionalContent ==
    <<"A", "d", "d", "i", "t", "i", "o", "n", "a", "l", " ",
      "C", "o", "n", "t", "e", "n", "t">>

create_module_meta(mods, pages, ctr) ==
    LET r == MetaModules(mods, 0, ctr)
    IN  IF pages # <<>>
        THEN [xml |-> r.modules \o
                      <<[identifier     |-> <<"m_", r.ctr + 1>>,
                         title          |-> AdditionalContent,
                         workflow_state |-> "active",
                         position       |-> Len(mods) + 1,
                         items          |-> MetaAdditionalItems(pages, r.ctr + 1)]>>,
              ctr |-> r.ctr + 1 + Len(pages)]
        ELSE [xml |-> r.modules, ctr |-> r.ctr]

(***************************************************************************)
(* create_imscc_package                                                    *)
(***************************************************************************)
RunTitles == {<<"A", " ", "b">>, <<"a", "-", "b">>}
SectionTitles == {<<"Q", " ", "1">>, <<"Q", "2">>}

ActivityAt(body, k) ==
    [id |-> k, full_id |-> <<"http:", "", "rise", k>>, name |-> body.name,
     description |-> "", type |-> body.type, identifier |-> NoId]

\* the flat activity lists of at most n activities
ActivityInputs(n) ==
    {[k \in 1..Len(bs) |-> ActivityAt(bs[k], k)] :
        bs \in SeqsUpTo([name : RunTitles, type : {"block"}]
                        \cup [name : SectionTitles, type : {"section"}], n)}

FileNames == {<<"a", "-", "b", ".html">>, <<"x", ".html">>}
NoMarkers ==
    [has_title |-> FALSE, title |-> <<>>, identifier |-> NoId,
     workflow_state |-> "none"]
Marked ==
    [has_title |-> TRUE, title |-> <<"I", "n", "t", "r", "o">>,
     identifier |-> <<"g", 0>>, workflow_state |-> "unpublished"]

\* the uploads of at most n files
FileInputs(n) ==
    SeqsUpTo([name : FileNames, decodable : {TRUE}, content : {NoMarkers, Marked}]
             \cup [name : {<<"x", ".html">>}, decodable : {FALSE},
                   content : {NoMarkers}],
             n)

Init ==
    /\ pc = "start"
    /\ activities \in ActivityInputs(MaxActs)
    /\ html_files \in FileInputs(MaxFiles)
    /\ xml_activities = <<>>
    /\ extract_error = FALSE
    /\ modules = <<>>
    /\ additional_pages = <<>>
    /\ warnings = <<>>
    /\ wiki_dir = <<>>
    /\ written = <<>>
    /\ manifest = EmptyManifest
    /\ module_meta = <<>>
    /\ uuid_ctr = 0
    /\ returned = FALSE
    /\ xml_wellformed = TRUE
    /\ surfaced = FALSE
    /\ download = FALSE
    /\ title = <<>>
    /\ slug1 = <<>>
    /\ slug2 = <<>>

\* line 454
Organize ==
    /\ pc = "start"
    /\ modules' = organize_activities(activities)
    /\ pc' = "organized"
    /\ UNCHANGED mainvars
    /\ UNCHANGED <<xml_activities, extract_error, activities, html_files,
                   additional_pages, warnings, wiki_dir, written, manifest,
                   module_meta, uuid_ctr, returned, title, slug1, slug2>>

\* line 457
ProcessAdditional ==
    /\ pc = "organized"
    /\ LET r == process_additional_html(html_files, uuid_ctr)
       IN  /\ additional_pages' = r.pages
           /\ warnings' = warnings \o r.warnings
           /\ uuid_ctr' = r.ctr
    /\ pc' = "processed"
    /\ UNCHANGED mainvars
    /\ UNCHANGED <<xml_activities, extract_error, activities, html_files, modules,
                   wiki_dir, written, manifest, module_meta, returned,
                   title, slug1, slug2>>

\* lines 467-473
WritePages ==
    /\ pc = "processed"
    /\ LET r == WriteModulesFrom(modules, wiki_dir, uuid_ctr)
       IN  /\ modules' = r.modules
           /\ wiki_dir' = r.fs
           /\ written' = written \o r.log
           /\ uuid_ctr' = r.ctr
    /\ pc' = "pages_written"
    /\ UNCHANGED mainvars
    /\ UNCHANGED <<xml_activities, extract_error, activities, html_files,
                   additional_pages, warnings, manifest, module_meta, returned,
                   title, slug1, slug2>>

\* lines 476-478
SaveAdditional ==
    /\ pc = "pages_written"
    /\ LET r == SaveAdditionalFrom(additional_pages, wiki_dir)
       IN  /\ wiki_dir' = r.fs
           /\ written' = written \o r.log
    /\ pc' = "additional_saved"
    /\ UNCHANGED mainvars
    /\ UNCHANGED <<xml_activities, extract_error, activities, html_files, modules,
                   additional_pages, warnings, manifest, module_meta, uuid_ctr,
                   returned, title, slug1, slug2>>

\* lines 481-483
WriteManifest ==
    /\ pc = "additional_saved"
    /\ LET r == create_imsmanifest(modules, additional_pages, uuid_ctr)
       IN  /\ manifest' = r.xml
           /\ modules' = r.modules
           /\ uuid_ctr' = r.ctr
    /\ pc' = "manifest_written"
    /\ UNCHANGED mainvars
    /\ UNCHANGED <<xml_activities, extract_error, activities, html_files,
                   additional_pages, warnings, wiki_dir, written, module_meta,
                   returned, title, slug1, slug2>>

\* lines 486-491; course_settings.xml takes one uuid before module_meta.xml
WriteCourseSettings ==
    /\ pc = "manifest_written"
    /\ LET r == create_module_meta(modules, additional_pages, uuid_ctr + 1)
       IN  /\ module_meta' = r.xml
           /\ uuid_ctr' = r.ctr
    /\ pc' = "settings_written"
    /\ UNCHANGED mainvars
    /\ UNCHANGED <<xml_activities, extract_error, activities, html_files, modules,
                   additional_pages, warnings, wiki_dir, written, manifest,
                   returned, title, slug1, slug2>>

\* lines 494-503
ZipAndReturn ==
    /\ pc = "settings_written"
    /\ returned' = TRUE
    /\ pc' = "done"
    /\ UNCHANGED mainvars
    /\ UNCHANGED <<xml_activities, extract_error, activities, html_files, modules,
                   additional_pages, warnings, wiki_dir, written, manifest,
                   module_meta, uuid_ctr, title, slug1, slug2>>

Next ==
    \/ Organize
    \/ ProcessAdditional
    \/ WritePages
    \/ SaveAdditional
    \/ WriteManifest
    \/ WriteCourseSettings
    \/ ZipAndReturn

Spec == Init /\ [][Next]_vars

(***************************************************************************)
(* Properties of one run                                                   *)
(***************************************************************************)
\* the <item> elements of the pages, over all modules of the manifest
ManifestPageItems ==
    {manifest.items[i].children[j] :
        <<i, j>> \in {x \in (1..Len(manifest.items)) \X (1..MaxActs + 1) :
                        x[2] <= Len(manifest.items[x[1]].children)}}

\* the <item> elements of module_meta.xml, over all its modules
MetaItemsAll ==
    {module_meta[i].items[j] :
        <<i, j>> \in {x \in (1..Len(module_meta)) \X (1..MaxActs + MaxFiles + 2) :
                        x[2] <= Len(module_meta[x[1]].items)}}

ResourcesWith(id) ==
    {r \in 1..Len(manifest.resources) : manifest.resources[r].identifier = id}

PagesOfModules ==
    {modules[i].pages[j] :
        <<i, j>> \in {x \in (1..Len(modules)) \X (1..MaxActs + 1) :
                        x[2] <= Len(modules[x[1]].pages)}}

\* C1: the identifier in a page's rendered HTML equals the identifierref of
\* that page in imsmanifest.xml and in module_meta.xml.
C1_IdentifierAgreement ==
    pc = "done" =>
        \A w \in 1..Len(written) :
            written[w].page_id # 0 =>
                /\ \A it \in ManifestPageItems :
                      it.page_id = written[w].page_id
                          => it.identifierref = written[w].content.identifier
                /\ \A it \in MetaItemsAll :
                      it.page_id = written[w].page_id
                          => it.identifierref = written[w].content.identifier

\* C2: every identifierref of imsmanifest.xml and of module_meta.xml is the
\* identifier of exactly one <resource>, and no two <resource> elements have
\* the same identifier.
C2_ReferenceClosure ==
    pc = "done" =>
        /\ \A it \in ManifestPageItems :
              Cardinality(ResourcesWith(it.identifierref)) = 1
        /\ \A r1, r2 \in 1..Len(manifest.resources) :
              r1 # r2 => manifest.resources[r1].identifier
                            # manifest.resources[r2].identifier
        /\ \A it \in MetaItemsAll :
              Cardinality(ResourcesWith(it.identifierref)) = 1

\* C3: the file name in a page's <resource> href is the file name under
\* which the page's HTML document was written into wiki_content.
C3_HrefIsWrittenFile ==
    pc = "done" =>
        \A r \in 1..Len(manifest.resources) :
            LET res == manifest.resources[r]
            IN  res.page_id # 0 =>
                  /\ \E w \in 1..Len(written) : written[w].page_id = res.page_id
                  /\ \A w \in 1..Len(written) :
                        written[w].page_id = res.page_id => res.href = written[w].path
                  /\ res.href \in DOMAIN wiki_dir

\* a page titled "A b" was written and its resource names a-b.html
C3_Witness ==
    /\ pc = "done"
    /\ \E r \in 1..Len(manifest.resources) :
          /\ manifest.resources[r].page_id # 0
          /\ activities[manifest.resources[r].page_id].name = <<"A", " ", "b">>
          /\ manifest.resources[r].href = <<"a", "-", "b", ".html">>
          /\ \E w \in 1..Len(written) :
                /\ written[w].page_id = manifest.resources[r].page_id
                /\ written[w].path = <<"a", "-", "b", ".html">>

SectionPositions == {i \in 1..Len(activities) : activities[i].type = "section"}

\* position in the flat list of the k-th section
KthSection(k) ==
    CHOOSE i \in SectionPositions :
        Cardinality({j \in SectionPositions : j < i}) = k - 1

\* position of the section after the k-th one, or one past the end
SectionEnd(k) ==
    IF k < Cardinality(SectionPositions) THEN KthSection(k + 1)
    ELSE Len(activities) + 1

PageIds(pages) == [j \in 1..Len(pages) |-> pages[j].id]

BlockIdsBetween(lo, hi) ==
    PageIds(SelectSeq(SubSeq(activities, lo + 1, hi - 1),
                      LAMBDA a : a.type = "block"))

\* C5: one module per section, in list order; the pages of the k-th module
\* are the blocks between the k-th section and the next one, in list order.
C5_PositionalGrouping ==
    pc # "start" =>
        /\ Len(modules) = Cardinality(SectionPositions)
        /\ \A k \in 1..Len(modules) :
              /\ modules[k].title = activities[KthSection(k)].name
              /\ modules[k].id = activities[KthSection(k)].id
              /\ PageIds(modules[k].pages)
                    = BlockIdsBetween(KthSection(k), SectionEnd(k))

\* section, block, section: the block belongs to the first module and the
\* second module is empty
C5_Witness ==
    /\ pc = "organized"
    /\ Len(activities) = 3
    /\ activities[1].type = "section"
    /\ activities[2].type = "block"
    /\ activities[3].type = "section"
    /\ Len(modules) = 2
    /\ PageIds(modules[1].pages) = <<2>>
    /\ modules[2].pages = <<>>

\* a block that no section precedes
Orphan(k) ==
    /\ activities[k].type = "block"
    /\ \A i \in 1..(k - 1) : activities[i].type # "section"

\* C6: a block that precedes every section is in no module, no HTML file is
\* written for it, and neither manifest holds an item or a resource for it.
C6_LeadingBlockDropped ==
    pc = "done" =>
        \A k \in 1..Len(activities) :
            Orphan(k) =>
                /\ \A p \in PagesOfModules : p.id # activities[k].id
                /\ \A w \in 1..Len(written) :
                      written[w].page_id # activities[k].id
                /\ \A f \in DOMAIN wiki_dir :
                      "lesson_id" \in DOMAIN wiki_dir[f]
                          => wiki_dir[f].lesson_id # activities[k].id
                /\ \A it \in ManifestPageItems : it.page_id # activities[k].id
                /\ \A r \in 1..Len(manifest.resources) :
                      manifest.resources[r].page_id # activities[k].id
                /\ \A it \in MetaItemsAll : it.page_id # activities[k].id

\* block, section, block: the run ended and only the second block is a page
C6_Witness ==
    /\ pc = "done"
    /\ Len(activities) = 3
    /\ Orphan(1)
    /\ activities[2].type = "section"
    /\ activities[3].type = "block"
    /\ Len(written) >= 1
    /\ Cardinality(ManifestPageItems) = 1

\* number of <item> elements in imsmanifest.xml
ManifestItemCount ==
    (IF manifest.root = "LearningModules" THEN 1 ELSE 0)
    + Len(manifest.items) + Cardinality(ManifestPageItems)

\* C7 as stated: with an empty activity list the manifest has zero <item>
\* and zero <resource> elements.
C7_EmptyManifestAsStated ==
    (pc = "done" /\ activities = <<>>) =>
        ManifestItemCount = 0 /\ Len(manifest.resources) = 0

\* C7: with an empty activity list the run returns an archive whose
\* manifest has no <item> but the root LearningModules item, and exactly
\* one <resource> per additional page.
C7_EmptyInput ==
    /\ (activities = <<>> /\ pc # "done") => ENABLED Next
    /\ (pc = "done" /\ activities = <<>>) =>
          /\ returned
          /\ manifest.root = "LearningModules"
          /\ manifest.items = <<>>
          /\ ManifestItemCount = 1
          /\ Len(manifest.resources) = Len(additional_pages)
          /\ \A k \in 1..Len(additional_pages) :
                manifest.resources[k].identifier = additional_pages[k].identifier

\* no activities and one additional page: the run ended
C7_Witness ==
    /\ pc = "done"
    /\ activities = <<>>
    /\ Len(additional_pages) = 1
    /\ Len(manifest.resources) = 1

\* C10: one <module> per module in order, then one "Additional Content"
\* module iff there are additional pages; module positions 1, 2, ... and
\* item positions 1, 2, ... in page order.
C10_ModuleMetaLayout ==
    pc = "done" =>
        /\ Len(module_meta)
              = Len(modules) + (IF additional_pages # <<>> THEN 1 ELSE 0)
        /\ \A i \in 1..Len(modules) :
              /\ module_meta[i].title = modules[i].title
              /\ module_meta[i].position = i
              /\ Len(module_meta[i].items) = Len(modules[i].pages)
              /\ \A j \in 1..Len(modules[i].pages) :
                    /\ module_meta[i].items[j].position = j
                    /\ module_meta[i].items[j].page_id = modules[i].pages[j].id
                    /\ module_meta[i].items[j].title = modules[i].pages[j].name
        /\ additional_pages # <<>> =>
              LET last == module_meta[Len(module_meta)]
              IN  /\ last.title = AdditionalContent
                  /\ last.position = Len(modules) + 1
                  /\ Len(last.items) = Len(additional_pages)
                  /\ \A j \in 1..Len(additional_pages) :
                        /\ last.items[j].position = j
                        /\ last.items[j].identifierref
                              = additional_pages[j].identifier
                        /\ last.items[j].title = additional_pages[j].title

\* two modules, the first with a page, and two additional pages
C10_Witness ==
    /\ pc = "done"
    /\ Len(modules) = 2
    /\ Len(modules[1].pages) = 1
    /\ Len(additional_pages) = 2
    /\ Len(module_meta) = 3
    /\ module_meta[3].title = AdditionalContent
    /\ module_meta[3].items[2].position = 2

\* C11: every uploaded additional file yields exactly one additional page;
\* a file that cannot be processed is included with the defaults (title
\* 'Untitled Page', a generated identifier, workflow_state 'active') and a
\* warning names it.
C11_EveryFileIncluded ==
    pc = "done" =>
        /\ Len(additional_pages) = Len(html_files)
        /\ \A k \in 1..Len(html_files) :
              /\ additional_pages[k].filename = html_files[k].name
              /\ ~html_files[k].decodable =>
                    /\ additional_pages[k].title = UntitledPage
                    /\ additional_pages[k].identifier[1] = "g"
                    /\ additional_pages[k].identifier # NoId
                    /\ additional_pages[k].workflow_state = "active"
                    /\ \E i \in 1..Len(warnings) : warnings[i] = html_files[k].name

\* C11, the part about files that can be read: each gives one page, in
\* upload order, and a missing marker is replaced by its default
C11_ReadableFilesIncluded ==
    pc = "done" =>
        LET readable == SelectSeq(html_files, LAMBDA f : f.decodable)
        IN  /\ Len(additional_pages) = Len(readable)
            /\ \A k \in 1..Len(readable) :
                  /\ additional_pages[k].filename = readable[k].name
                  /\ ~readable[k].content.has_title
                        => additional_pages[k].title = UntitledPage
                  /\ readable[k].content.identifier = NoId
                        => additional_pages[k].identifier[1] = "g"
                  /\ readable[k].content.workflow_state = "none"
                        => additional_pages[k].workflow_state = "active"

\* C13: no file of wiki_content is written twice in one run, so the archive
\* holds one file per page and per additional page, and a page's <resource>
\* href names the file that holds that page's own document.
C13_NoOverwrite ==
    pc = "done" =>
        /\ \A w1, w2 \in 1..Len(written) :
              w1 # w2 => written[w1].path # written[w2].path
        /\ Cardinality(DOMAIN wiki_dir) = Len(written)
        /\ \A r \in 1..Len(manifest.resources) :
              LET res == manifest.resources[r]
              IN  res.page_id # 0 =>
                    /\ res.href \in DOMAIN wiki_dir
                    /\ "lesson_id" \in DOMAIN wiki_dir[res.href]
                    /\ wiki_dir[res.href].lesson_id = res.page_id

\* C13 restricted to the pages of modules whose slugs differ and differ
\* from every uploaded file name
C13_DistinctSlugsKept ==
    pc = "done" =>
        \A r \in 1..Len(manifest.resources) :
            LET res == manifest.resources[r]
            IN  (/\ res.page_id # 0
                 /\ \A w \in 1..Len(written) :
                       written[w].page_id # res.page_id => written[w].path # res.href)
                => /\ res.href \in DOMAIN wiki_dir
                   /\ wiki_dir[res.href].lesson_id = res.page_id

(***************************************************************************)
(* The script from the upload to the download link (lines 505-556), in the *)
(* rerun in which "Generate IMSCC Package" was pressed.                    *)
(***************************************************************************)
MainElementBodies ==
    {[name_kind |-> "text", name |-> <<"a">> \o BLOCKS,
      has_description |-> TRUE, description |-> "d"],
     [name_kind |-> "text", name |-> <<"Q">> \o SECTION,
      has_description |-> FALSE, description |-> "d"],
     [name_kind |-> "absent", name |-> <<>>,
      has_description |-> FALSE, description |-> "d"],
     [name_kind |-> "empty", name |-> <<>>,
      has_description |-> FALSE, description |-> "d"]}

\* the well-formed documents of at most m activity elements
MainXmlInputs(m) ==
    {[k \in 1..Len(bs) |-> ElementAt(bs[k], k)] : bs \in SeqsUpTo(MainElementBodies, m)}

InitMain ==
    /\ pc = "main_start"
    /\ xml_wellformed \in BOOLEAN
    /\ xml_activities \in (IF xml_wellformed THEN MainXmlInputs(MaxElems) ELSE {<<>>})
    /\ html_files \in FileInputs(MaxFiles)
    /\ extract_error = FALSE
    /\ activities = <<>>
    /\ modules = <<>>
    /\ additional_pages = <<>>
    /\ warnings = <<>>
    /\ wiki_dir = <<>>
    /\ written = <<>>
    /\ manifest = EmptyManifest
    /\ module_meta = <<>>
    /\ uuid_ctr = 0
    /\ returned = FALSE
    /\ surfaced = FALSE
    /\ download = FALSE
    /\ title = <<>>
    /\ slug1 = <<>>
    /\ slug2 = <<>>

\* lines 507-515 and 553-556: ET.fromstring raises ParseError on malformed
\* XML, name.endswith raises on an empty <name/>; both reach the except
\* clause of the script
MainExtract ==
    /\ pc = "main_start"
    /\ IF ~xml_wellformed \/ ExtractRaises(xml_activities)
       THEN /\ extract_error' = TRUE
            /\ surfaced' = TRUE
            /\ pc' = "failed"
            /\ UNCHANGED activities
       ELSE /\ activities' = ExtractList(xml_activities)
            /\ pc' = "start"
            /\ UNCHANGED <<extract_error, surfaced>>
    /\ UNCHANGED <<xml_activities, html_files, modules, additional_pages, warnings,
                   wiki_dir, written, manifest, module_meta, uuid_ctr, returned,
                   title, slug1, slug2, xml_wellformed, download>>

WritingSteps ==
    {"processed", "pages_written", "additional_saved", "manifest_written",
     "settings_written"}

\* the exception is swallowed and the run goes on to zip what was written
RaiseSwallowed ==
    /\ pc \in WritingSteps
    /\ pc' = "settings_written"
    /\ pc # "settings_written"
    /\ UNCHANGED <<xml_activities, extract_error, activities, html_files, modules,
                   additional_pages, warnings, wiki_dir, written, manifest,
                   module_meta, uuid_ctr, returned, title, slug1, slug2,
                   xml_wellformed, surfaced, download>>

\* an open(), write() or zf.write() of lines 472-500 raises: nothing in
\* create_imscc_package catches it, TemporaryDirectory removes the files
\* written so far, and the except clause of the script (lines 553-556)
\* reports it
RaiseInWrite ==
    /\ pc \in WritingSteps
    /\ pc' = "failed"
    /\ surfaced' = TRUE
    /\ wiki_dir' = <<>>
    /\ manifest' = EmptyManifest
    /\ module_meta' = <<>>
    /\ UNCHANGED <<xml_activities, extract_error, activities, html_files, modules,
                   additional_pages, warnings, written, uuid_ctr, returned,
                   title, slug1, slug2, xml_wellformed, download>>

\* lines 541-552
OfferDownload ==
    /\ pc = "done"
    /\ returned
    /\ download' = TRUE
    /\ pc' = "offered"
    /\ UNCHANGED <<xml_activities, extract_error, activities, html_files, modules,
                   additional_pages, warnings, wiki_dir, written, manifest,
                   module_meta, uuid_ctr, returned, title, slug1, slug2,
                   xml_wellformed, surfaced>>

NextMain ==
    \/ MainExtract
    \/ Organize
    \/ ProcessAdditional
    \/ WritePages
    \/ SaveAdditional
    \/ WriteManifest
    \/ WriteCourseSettings
    \/ ZipAndReturn
    \/ RaiseInWrite
    \/ OfferDownload

SpecMain == InitMain /\ [][NextMain]_vars

\* every step of the package was carried out: each page and additional page
\* was written and its file is in wiki_content, and both manifests exist
ArchiveComplete ==
    /\ Len(written) = Cardinality(PagesOfModules) + Len(additional_pages)
    /\ \A w \in 1..Len(written) : written[w].path \in DOMAIN wiki_dir
    /\ manifest.root = "LearningModules"
    /\ Len(manifest.resources) = Len(written)
    /\ Len(module_meta)
          = Len(modules) + (IF additional_pages # <<>> THEN 1 ELSE 0)

\* C12: a fatal error (malformed XML, an exception while the package is
\* written) is surfaced and no archive is returned or offered; an archive
\* that is returned is complete and is the only thing offered.
C12_AllOrNothing ==
    /\ surfaced => ~returned /\ ~download
    /\ pc = "failed" => surfaced /\ ~returned /\ ~download
    /\ returned => ArchiveComplete /\ ~surfaced
    /\ download => returned
    /\ pc = "offered" => download /\ returned /\ ~surfaced
    /\ pc \in {"main_start", "start", "organized", "failed", "offered", "done"}
          \cup WritingSteps
    /\ pc = "done" => returned /\ ~surfaced
    /\ pc \notin {"done", "offered"} => ~returned
    /\ ~xml_wellformed /\ pc # "main_start" => pc = "failed"

\* a write failed after page files had been written: the error is shown
\* and nothing is returned
C12_Witness ==
    /\ pc = "failed"
    /\ xml_wellformed
    /\ Len(written) >= 2
    /\ surfaced
    /\ ~returned
    /\ ~download

\* malformed XML: the run failed at extraction
C12_WitnessParse ==
    /\ pc = "failed"
    /\ ~xml_wellformed
    /\ surfaced
    /\ ~returned

====
